---- MODULE Spec2Model ----
(***************************************************************************)
(* Feature-flag service (src/app.py): a Flask application with four        *)
(* handlers over one PostgreSQL table `flags`.  Each handler opens its own *)
(* connection, runs one statement, and closes the connection in `finally`. *)
(* Handlers of different clients interleave at the statement and at the    *)
(* commit; everything else a handler does is local to it.                  *)
(***************************************************************************)
EXTENDS Integers, Sequences, FiniteSets, TLC

----------------------------------------------------------------------------
(* Bounds *)

NumClients == 2
NumNames == 2

Clients == 1..NumClients

\* Flag names are strings, modelled as sequences of character codes:
\* "b", "a", "ab", "ba".
NamePool == << <<2>>, <<1>>, <<1, 2>>, <<2, 1>> >>
Names == {NamePool[i] : i \in 1..(IF NumNames < Len(NamePool) THEN NumNames ELSE Len(NamePool))}
NoName == <<>>

----------------------------------------------------------------------------
(* JSON values carried by the key is_enabled *)

JBool(x) == [kind |-> "bool", b |-> x]
JStrTrue == [kind |-> "str", b |-> TRUE]      \* the JSON string "true"
JNum == [kind |-> "num", b |-> TRUE]          \* the JSON number 1
JNull == [kind |-> "null", b |-> FALSE]       \* JSON null (Python None)
Absent == [kind |-> "absent", b |-> FALSE]    \* key is_enabled not in the body
JsonVals == {JBool(TRUE), JBool(FALSE), JStrTrue, JNum, JNull}

----------------------------------------------------------------------------
(* Environment *)

\* DB_PASSWORD and DB_PASSWORD_SSM_PARAM as os.getenv gives them to a request:
\* the password is resolved anew by every request that opens a connection.
EnvConfigs == [password : {"absent", "empty", "set"}, ssm : {"absent", "set"}]

----------------------------------------------------------------------------
(* State *)

VARIABLES
    table,    \* committed rows of `flags`, in heap order
    req       \* per client: idle, a transaction awaiting commit, or a response

vars == <<table, req>>

Row(n, b) == [name |-> n, is_enabled |-> b]

\* pc: "idle" | "executed" (statement run, commit pending) | "done" (response
\* on its way to the client).  conn, cur: "none" | "open" | "closed".
\* pw: what resolve_db_password gave.  attempted: psycopg2.connect was
\* called.  ran: cur.execute was called.  detail: the error text of the
\* response, "" when it carries none.
Idle ==
    [pc |-> "idle", op |-> "none", name |-> NoName, hasBody |-> FALSE,
     hasName |-> FALSE, val |-> Absent, status |-> 0, detail |-> "",
     body |-> <<>>, conn |-> "none", cur |-> "none", pw |-> "unset",
     attempted |-> FALSE, ran |-> FALSE]

Request(op, n, hasBody, hasName, v) ==
    [Idle EXCEPT !.op = op, !.name = n, !.hasBody = hasBody,
                 !.hasName = hasName, !.val = v]

----------------------------------------------------------------------------
(* The table: schema constraints and statements *)

Exists(t, n) == \E i \in 1..Len(t) : t[i].name = n

\* cur.rowcount after UPDATE ... WHERE name = n
RowCount(t, n) == Cardinality({i \in 1..Len(t) : t[i].name = n})

\* SELECT name, is_enabled FROM flags WHERE name = n
SelectByName(t, n) == SelectSeq(t, LAMBDA r : r.name = n)

\* Variant: the UPDATE without its WHERE clause.
UpdateRowsNoWhere(t, n, b) ==
    [i \in 1..Len(t) |-> [t[i] EXCEPT !.is_enabled = b]]

\* UPDATE flags SET is_enabled = b WHERE name = n
UpdateRows(t, n, b) ==
    [i \in 1..Len(t) |-> IF t[i].name = n THEN [t[i] EXCEPT !.is_enabled = b] ELSE t[i]]

RECURSIVE LexLess(_, _)
LexLess(s, t) ==
    IF s = <<>> THEN t # <<>>
    ELSE IF t = <<>> THEN FALSE
    ELSE IF s[1] # t[1] THEN s[1] < t[1]
    ELSE LexLess(Tail(s), Tail(t))

RECURSIVE InsertSorted(_, _)
InsertSorted(r, s) ==
    IF s = <<>> THEN <<r>>
    ELSE IF LexLess(r.name, s[1].name) THEN <<r>> \o s
    ELSE <<s[1]>> \o InsertSorted(r, Tail(s))

\* Variant: the SELECT without ORDER BY, rows in heap order.
HeapOrder(t) == t

\* SELECT name, is_enabled FROM flags ORDER BY name
RECURSIVE OrderByName(_)
OrderByName(t) ==
    IF t = <<>> THEN <<>> ELSE InsertSorted(t[1], OrderByName(Tail(t)))

\* Variant: the schema without UNIQUE on name.
InsertResultNoUnique(t, n, v) ==
    IF v.kind = "num" THEN "datatype"
    ELSE IF v.kind = "null" THEN "notnull"
    ELSE "ok"

\* Result of INSERT INTO flags (name, is_enabled) VALUES (n, v) against the
\* committed rows: the column is BOOLEAN NOT NULL, the name is UNIQUE.
\* A number has no assignment cast to boolean; a quoted literal is read by
\* the boolean input function; NULL violates NOT NULL.
InsertResult(t, n, v) ==
    IF v.kind = "num" THEN "datatype"
    ELSE IF v.kind = "null" THEN "notnull"
    ELSE IF Exists(t, n) THEN "unique"
    ELSE "ok"

\* The boolean the column holds for an accepted value.
Stored(v) == v.b

\* psycopg2.IntegrityError covers every integrity-constraint violation.
IsIntegrityError(e) == e \in {"unique", "notnull"}

----------------------------------------------------------------------------
(* Credential resolver and connection builder *)

\* The decrypted parameter, an empty one, or an exception from the lookup.
GetSsmParameter == {"pw", "empty", "raise"}

ResolveDbPassword(e) ==
    IF e.password = "set" THEN {"pw"}
    ELSE IF e.ssm = "absent" THEN {"none"}
    ELSE GetSsmParameter

\* Variant: `if db_password is None` in place of `if not db_password`.
GetDbConnectionNoneOnly(e, r) ==
    UNION { IF p = "raise" THEN {[r EXCEPT !.pw = p, !.detail = "ssm"]}
            ELSE IF p = "none" THEN {[r EXCEPT !.pw = p, !.detail = "config"]}
            ELSE {[r EXCEPT !.pw = p, !.attempted = TRUE, !.conn = "open"],
                  [r EXCEPT !.pw = p, !.attempted = TRUE, !.detail = "connect"]}
          : p \in ResolveDbPassword(e) }

\* The records a handler may hold after `conn = get_db_connection()`:
\* detail # "" when the call raised.
GetDbConnection(e, r) ==
    UNION { IF p = "raise" THEN {[r EXCEPT !.pw = p, !.detail = "ssm"]}
            ELSE IF p \in {"none", "empty"} THEN {[r EXCEPT !.pw = p, !.detail = "config"]}
            ELSE {[r EXCEPT !.pw = p, !.attempted = TRUE, !.conn = "open"],
                  [r EXCEPT !.pw = p, !.attempted = TRUE, !.detail = "connect"]}
          : p \in ResolveDbPassword(e) }

\* `cur = conn.cursor(...)`
OpenCursor(r) == {[r EXCEPT !.cur = "open"], [r EXCEPT !.detail = "cursor"]}

----------------------------------------------------------------------------
(* Handler exits *)

\* Variant: a `finally` that closes the cursor only.
FinallyCursorOnly(r) ==
    [r EXCEPT !.cur = IF @ = "open" THEN "closed" ELSE @]

\* The `finally` block shared by the four handlers.
Finally(r) ==
    [r EXCEPT !.cur = IF @ = "open" THEN "closed" ELSE @,
              !.conn = IF @ = "open" THEN "closed" ELSE @]

\* A return before the `try` block.
Return(r, status, detail, body) ==
    [r EXCEPT !.pc = "done", !.status = status, !.detail = detail, !.body = body]

\* A return from inside or after the `try` block.
Respond(r, status, detail, body) == Return(Finally(r), status, detail, body)

\* `conn = get_db_connection(); cur = conn.cursor()` inside `try`, with the
\* `except Exception` clause: a 500 response, or a record with the cursor open.
TryOpen(r) ==
    UNION { IF g.detail # "" THEN {Respond(g, 500, g.detail, <<>>)}
            ELSE { IF k.detail # "" THEN Respond(k, 500, k.detail, <<>>) ELSE k
                   : k \in OpenCursor(g) }
          : g \in UNION {GetDbConnection(e, r) : e \in EnvConfigs} }

\* `cur.execute(...)` raising for a reason other than the statement's own.
ExecuteFails(r) == Respond([r EXCEPT !.ran = TRUE], 500, "execute", <<>>)

----------------------------------------------------------------------------
(* Handlers.  What a handler does before its statement is local to it, so *)
(* a handler is one step up to and including the statement, and, for a     *)
(* write, a second step for the commit and the return.                     *)

Set(c, r) == req' = [req EXCEPT ![c] = r]

PendingInsert(c, n) ==
    req[c].pc = "executed" /\ req[c].op = "create" /\ req[c].name = n

PendingUpdate(c, n) ==
    req[c].pc = "executed" /\ req[c].op = "update" /\ req[c].name = n

HealthCheckStep(c) ==
    /\ req[c].pc = "idle"
    /\ Set(c, Return(Request("health", NoName, FALSE, FALSE, Absent), 200, "", <<>>))
    /\ UNCHANGED table

\* `not data or 'name' not in data`
CreateInvalid(r) == ~r.hasBody \/ ~r.hasName

\* `data.get('is_enabled', False)`
IsEnabledArg(v) == IF v.kind = "absent" THEN JBool(FALSE) ELSE v

CreateInputs ==
    {Request("create", NoName, FALSE, FALSE, Absent),
     Request("create", NoName, TRUE, FALSE, Absent)}
    \cup {Request("create", n, TRUE, TRUE, v) : n \in Names, v \in JsonVals \cup {Absent}}

\* The INSERT on an open cursor: an exception mapped to 409 or 500, or the
\* row pending in the transaction.  The statement waits while another
\* transaction holds an uncommitted insert of the same name.
CreateFlagExecute(c, k) ==
    LET r == [k EXCEPT !.ran = TRUE]
        res == InsertResult(table, r.name, IsEnabledArg(r.val))
    IN
    \/ Set(c, ExecuteFails(k))
    \/ /\ res # "ok"
       /\ Set(c, IF IsIntegrityError(res) THEN Respond(r, 409, "exists", <<>>)
                 ELSE Respond(r, 500, res, <<>>))
    \/ /\ res = "ok"
       /\ \A d \in Clients \ {c} : ~PendingInsert(d, r.name)
       /\ Set(c, [r EXCEPT !.pc = "executed"])

CreateFlagStep(c) ==
    /\ req[c].pc = "idle"
    /\ \E r \in CreateInputs :
          IF CreateInvalid(r)
          THEN Set(c, Return(r, 400, "required", <<>>))
          ELSE \E k \in TryOpen(r) :
                  IF k.pc = "done" THEN Set(c, k) ELSE CreateFlagExecute(c, k)
    /\ UNCHANGED table

\* `conn.commit()`, then `finally`, then the 201.
CreateFlagCommitStep(c) ==
    LET r == req[c] IN
    /\ r.pc = "executed" /\ r.op = "create"
    /\ \/ /\ table' = Append(table, Row(r.name, Stored(IsEnabledArg(r.val))))
          /\ Set(c, Respond(r, 201, "", <<>>))
       \/ /\ Set(c, Respond(r, 500, "commit", <<>>))
          /\ UNCHANGED table

GetFlagsStep(c) ==
    /\ req[c].pc = "idle"
    /\ \E k \in TryOpen(Request("list", NoName, FALSE, FALSE, Absent)) :
          IF k.pc = "done" THEN Set(c, k)
          ELSE \/ Set(c, ExecuteFails(k))
               \/ Set(c, Respond([k EXCEPT !.ran = TRUE], 200, "", OrderByName(table)))
    /\ UNCHANGED table

\* Variant: `if flag and flag['is_enabled']`.
GetFlagStatusResponseTruthy(r, rows) ==
    IF rows # <<>> /\ rows[1].is_enabled THEN Respond(r, 200, "", <<rows[1]>>)
    ELSE Respond(r, 404, "notfound", <<>>)

\* `if flag: 200 else 404` on the fetched row.
GetFlagStatusResponse(r, rows) ==
    IF rows # <<>> THEN Respond(r, 200, "", <<rows[1]>>)
    ELSE Respond(r, 404, "notfound", <<>>)

GetFlagStatusStep(c) ==
    /\ req[c].pc = "idle"
    /\ \E n \in Names :
          \E k \in TryOpen(Request("get", n, FALSE, FALSE, Absent)) :
             IF k.pc = "done" THEN Set(c, k)
             ELSE \/ Set(c, ExecuteFails(k))
                  \/ Set(c, GetFlagStatusResponse([k EXCEPT !.ran = TRUE],
                                                  SelectByName(table, k.name)))
    /\ UNCHANGED table

\* Variant: the test without its isinstance clause.
UpdateInvalidNoType(r) == ~r.hasBody \/ r.val.kind = "absent"

\* `data is None or 'is_enabled' not in data or not isinstance(..., bool)`
UpdateInvalid(r) == ~r.hasBody \/ r.val.kind = "absent" \/ r.val.kind # "bool"

UpdateInputs ==
    {Request("update", n, FALSE, FALSE, Absent) : n \in Names}
    \cup {Request("update", n, TRUE, FALSE, v) : n \in Names, v \in JsonVals \cup {Absent}}

\* The UPDATE on an open cursor and the rowcount test.  The statement waits
\* while another transaction holds an uncommitted update of the row.
UpdateFlagExecute(c, k) ==
    LET r == [k EXCEPT !.ran = TRUE] IN
    \/ Set(c, ExecuteFails(k))
    \/ /\ \A d \in Clients \ {c} : ~PendingUpdate(d, r.name)
       /\ Set(c, IF RowCount(table, r.name) = 0 THEN Respond(r, 404, "notfound", <<>>)
                 ELSE [r EXCEPT !.pc = "executed"])

UpdateFlagStep(c) ==
    /\ req[c].pc = "idle"
    /\ \E r \in UpdateInputs :
          IF UpdateInvalid(r)
          THEN Set(c, Return(r, 400, "required", <<>>))
          ELSE \E k \in TryOpen(r) :
                  IF k.pc = "done" THEN Set(c, k) ELSE UpdateFlagExecute(c, k)
    /\ UNCHANGED table

UpdateFlagCommitStep(c) ==
    LET r == req[c] IN
    /\ r.pc = "executed" /\ r.op = "update"
    /\ \/ /\ table' = UpdateRows(table, r.name, r.val.b)
          /\ Set(c, Respond(r, 200, "", <<>>))
       \/ /\ Set(c, Respond(r, 500, "commit", <<>>))
          /\ UNCHANGED table

----------------------------------------------------------------------------
(* Specification: clients issue requests for ever; each response is seen   *)
(* by its client before the next step is taken.                            *)

Quiet == \A d \in Clients : req[d].pc # "done"

HealthCheck(c) == Quiet /\ HealthCheckStep(c)
CreateFlag(c) == Quiet /\ CreateFlagStep(c)
CreateFlagCommit(c) == Quiet /\ CreateFlagCommitStep(c)
GetFlags(c) == Quiet /\ GetFlagsStep(c)
GetFlagStatus(c) == Quiet /\ GetFlagStatusStep(c)
UpdateFlag(c) == Quiet /\ UpdateFlagStep(c)
UpdateFlagCommit(c) == Quiet /\ UpdateFlagCommitStep(c)

Receive(c) ==
    /\ req[c].pc = "done"
    /\ Set(c, Idle)
    /\ UNCHANGED table

Init ==
    /\ table = <<>>
    /\ req = [c \in Clients |-> Idle]

Next ==
    \E c \in Clients :
        \/ HealthCheck(c)
        \/ CreateFlag(c)
        \/ CreateFlagCommit(c)
        \/ GetFlags(c)
        \/ GetFlagStatus(c)
        \/ UpdateFlag(c)
        \/ UpdateFlagCommit(c)
        \/ Receive(c)

Spec == Init /\ [][Next]_vars

\* The race: every client sends one create and keeps its response.
RaceCreateFlag(c) == CreateFlagStep(c)
RaceCreateFlagCommit(c) == CreateFlagCommitStep(c)

NextRace == \E c \in Clients : RaceCreateFlag(c) \/ RaceCreateFlagCommit(c)

SpecRace == Init /\ [][NextRace]_vars

----------------------------------------------------------------------------
(* Properties *)

\* Client c's request is answered in this step.
Answers(c) == req[c].pc # "done" /\ req'[c].pc = "done"

\* Client c holds a response to an operation op.
Answered(c, op) == req[c].pc = "done" /\ req[c].op = op

\* The is_enabled a create request sends: false when the key is omitted.
Sent(v) == IF v = Absent THEN JBool(FALSE) ELSE v

NamesOf(t) == {t[i].name : i \in 1..Len(t)}

RowsOf(t) == {t[i] : i \in 1..Len(t)}

\* C1: a create answered 201 followed by get of the same name gives 200 with
\* that name and the is_enabled that was sent (false when it was omitted).
CreateThenGet ==
    [][\A c \in Clients :
          (Answers(c) /\ req'[c].op = "create" /\ req'[c].status = 201) =>
             LET g == GetFlagStatusResponse(Request("get", req'[c].name, FALSE, FALSE, Absent),
                                            SelectByName(table', req'[c].name))
             IN /\ g.status = 200
                /\ Len(g.body) = 1
                /\ g.body[1].name = req'[c].name
                /\ JBool(g.body[1].is_enabled) = Sent(req'[c].val)]_vars

\* C2: a create for a name the table already holds is answered 409 (500 only
\* when the password, the connection, the cursor or the statement fails or
\* is_enabled is a number), adds no row and changes no is_enabled; no two
\* rows ever share a name.
NoSharedName(t) == \A i, j \in 1..Len(t) : t[i].name = t[j].name => i = j

DuplicateCreateRejected ==
    [][/\ NoSharedName(table')
       /\ \A c \in Clients :
             (/\ req[c].pc = "idle"
              /\ req'[c].op = "create" /\ req'[c].hasBody /\ req'[c].hasName
              /\ Exists(table, req'[c].name)) =>
                /\ req'[c].pc = "done"
                /\ req'[c].status \in {409, 500}
                /\ req'[c].status = 500 =>
                      req'[c].detail \in {"config", "ssm", "connect", "cursor",
                                          "execute", "datatype"}
                /\ table' = table]_vars

DuplicateCreateSeen ==
    \E c \in Clients :
        /\ Answered(c, "create") /\ req[c].status = 409
        /\ req[c].val.kind \in {"bool", "absent"}
        /\ \E i \in 1..Len(table) :
              table[i].name = req[c].name /\ JBool(table[i].is_enabled) # Sent(req[c].val)

\* C3: a create whose body has the key name is answered 409 only if the name
\* already exists, 201 only if its row was inserted, and 500 with error
\* detail otherwise.
ConflictOnlyOnDuplicate ==
    [][\A c \in Clients :
          (Answers(c) /\ req'[c].op = "create" /\ req'[c].hasBody /\ req'[c].hasName) =>
             /\ req'[c].status \in {201, 409, 500}
             /\ req'[c].status = 409 => Exists(table, req'[c].name)
             /\ req'[c].status = 201 =>
                   ~Exists(table, req'[c].name) /\ Exists(table', req'[c].name)
             /\ req'[c].status = 500 => req'[c].detail # "" /\ table' = table]_vars

\* C4: an update with a boolean is_enabled is answered 404 with the table
\* unchanged when no flag has the name; otherwise it is answered 200 (500 if
\* the store fails), and with the 200 that flag's is_enabled becomes the
\* boolean sent while the names and every other flag stay as they were.
UpdateEffect ==
    [][\A c \in Clients :
          (/\ req'[c] # req[c]
           /\ req'[c].op = "update" /\ req'[c].hasBody /\ req'[c].val.kind = "bool") =>
             LET n == req'[c].name
                 b == req'[c].val.b
             IN /\ ~Exists(table, n) =>
                      /\ req'[c].pc = "done"
                      /\ req'[c].status \in {404, 500}
                      /\ table' = table
                /\ Exists(table, n) =>
                      \/ req'[c].pc = "executed" /\ table' = table
                      \/ req'[c].pc = "done" /\ req'[c].status = 500 /\ table' = table
                      \/ /\ req'[c].pc = "done" /\ req'[c].status = 200
                         /\ Len(table') = Len(table)
                         /\ NamesOf(table') = NamesOf(table)
                         /\ \A i \in 1..Len(table') :
                               IF table'[i].name = n THEN table'[i].is_enabled = b
                               ELSE table'[i] \in RowsOf(table)]_vars

UpdateSeen ==
    \E c \in Clients :
        /\ Answered(c, "update") /\ req[c].status = 200
        /\ \E i \in 1..Len(table) :
              table[i].name # req[c].name /\ table[i].is_enabled # req[c].val.b

\* C5: an update whose body is missing, lacks is_enabled or carries a value
\* that is not a boolean is answered 400 without resolving a password,
\* opening a connection or running a statement, and the table is unchanged.
BadUpdateRejected ==
    [][\A c \in Clients :
          (/\ req'[c] # req[c]
           /\ req'[c].op = "update"
           /\ ~(req'[c].hasBody /\ req'[c].val.kind = "bool")) =>
             /\ req'[c].pc = "done" /\ req'[c].status = 400
             /\ req'[c].pw = "unset" /\ ~req'[c].attempted /\ ~req'[c].ran
             /\ req'[c].conn = "none"
             /\ table' = table]_vars

BadUpdateSeen ==
    \E c \in Clients :
        /\ Answered(c, "update") /\ req[c].status = 400
        /\ req[c].val = JStrTrue
        /\ Exists(table, req[c].name)

\* C6: list is answered 200 (500 if the store fails) with one entry per row
\* of the table, each the row's name and is_enabled, in strictly ascending
\* lexicographic order of name; the table is unchanged.
ListSortedComplete ==
    [][\A c \in Clients :
          (Answers(c) /\ req'[c].op = "list") =>
             /\ table' = table
             /\ req'[c].status \in {200, 500}
             /\ req'[c].status = 200 =>
                   LET b == req'[c].body IN
                   /\ Len(b) = Len(table)
                   /\ RowsOf(b) = RowsOf(table)
                   /\ \A i, j \in 1..Len(b) : i < j => LexLess(b[i].name, b[j].name)]_vars

ListSeen ==
    \E c \in Clients :
        /\ Answered(c, "list") /\ req[c].status = 200
        /\ Len(table) >= 2 /\ LexLess(table[2].name, table[1].name)
        /\ Len(req[c].body) = Len(table)

\* C7: get is answered 200 with the row of that name exactly when the table
\* holds one, 404 with an error body when it holds none (500 if the store
\* fails); the table is unchanged.
GetExact ==
    [][\A c \in Clients :
          (Answers(c) /\ req'[c].op = "get") =>
             /\ table' = table
             /\ req'[c].status \in {200, 404, 500}
             /\ req'[c].status = 200 =>
                   /\ Len(req'[c].body) = 1
                   /\ req'[c].body[1].name = req'[c].name
                   /\ req'[c].body[1] \in RowsOf(table)
             /\ req'[c].status = 404 =>
                   ~Exists(table, req'[c].name) /\ req'[c].detail # ""]_vars

GetSeen ==
    \E c \in Clients :
        /\ Answered(c, "get") /\ req[c].status = 200
        /\ ~req[c].body[1].is_enabled

\* C8: a request holds no open connection once it is answered, whatever the
\* exit path; only a transaction awaiting its commit holds one.
ConnectionsClosed ==
    \A c \in Clients :
        /\ req[c].pc = "done" => req[c].conn # "open"
        /\ req[c].conn = "open" => req[c].pc = "executed"

ClosedAfterFailure ==
    \E c \in Clients :
        /\ req[c].pc = "done" /\ req[c].status = 500 /\ req[c].detail = "commit"
        /\ req[c].conn = "closed"

\* C9: a request for which no password is resolved (none configured, or an
\* empty secret) is answered 500 with no connection attempted, no statement
\* run and the table unchanged; health-check is answered 200.
NoPasswordNoConnection ==
    [][\A c \in Clients :
          Answers(c) =>
             /\ req'[c].op = "health" => req'[c].status = 200
             /\ req'[c].pw \in {"none", "empty"} =>
                   /\ req'[c].status = 500
                   /\ ~req'[c].attempted /\ ~req'[c].ran
                   /\ req'[c].conn = "none"
                   /\ table' = table]_vars

NoPasswordSeen ==
    \E c \in Clients :
        /\ Answered(c, "update") /\ req[c].pw = "empty" /\ req[c].status = 500
        /\ Exists(table, req[c].name)

\* C10: when two or more creates of one previously absent name have all been
\* answered, none with 500, exactly one was answered 201, the others 409,
\* and the table holds one row of that name with the is_enabled the 201
\* request sent.
RaceHasOneWinner ==
    \A n \in Names :
        LET S == {c \in Clients : Answered(c, "create") /\ req[c].hasName /\ req[c].name = n}
        IN (/\ Cardinality(S) >= 2
            /\ \A c \in Clients : ~PendingInsert(c, n)
            /\ \A c \in S : req[c].status # 500) =>
              \E w \in S :
                 /\ req[w].status = 201
                 /\ \A c \in S \ {w} : req[c].status = 409
                 /\ Len(SelectByName(table, n)) = 1
                 /\ JBool(SelectByName(table, n)[1].is_enabled) = Sent(req[w].val)

====
